---- MODULE Spec2Model ----
(***************************************************************************)
(* Model of sorting::MergeSort<T, Comparator> (src/main.cpp).              *)
(*                                                                         *)
(* A caller owns a sequence and a comparator and calls one of the two     *)
(* sort entry points and/or isSorted.  The recursive driver sortImpl is   *)
(* modelled with an explicit call stack, merge with its local variables   *)
(* and one step per loop iteration.  Source indices are 0-based; TLA+     *)
(* sequences are 1-based, so source index x is position x + 1.            *)
(***************************************************************************)
EXTENDS Integers, Sequences, FiniteSets, TLC

\* ------------------------------------------------------------------ bounds
MaxLen == 4          \* longest caller sequence explored
NumElem == 3         \* number of distinct element values explored

\* Elements are 0 .. NumElem-1.  An element stands for a record whose sort
\* key is Key(v); 2k and 2k+1 share a key but are distinguishable.
Elem == 0 .. (NumElem - 1)
Key(v) == v \div 2

\* Content of a buffer cell between `new T[n]` and its first assignment.
Unset == -1

\* ------------------------------------------------------------- comparators
Relations ==
    {"stdLess", "descending", "keyLess", "lessEq", "alwaysTrue",
     "alwaysFalse", "cyclic"}

\* comp(a, b) for each comparator instantiation explored.
Comp(c, a, b) ==
    CASE c = "stdLess"     -> a < b
      [] c = "descending"  -> a > b
      [] c = "keyLess"     -> Key(a) < Key(b)
      [] c = "lessEq"      -> a <= b
      [] c = "alwaysTrue"  -> TRUE
      [] c = "alwaysFalse" -> FALSE
      [] c = "cyclic"      -> (b - a) % NumElem = 1

Equiv(c, a, b) == ~Comp(c, a, b) /\ ~Comp(c, b, a)

IsStrictWeakOrdering(c) ==
    /\ \A a \in Elem : ~Comp(c, a, a)
    /\ \A a, b \in Elem : Comp(c, a, b) => ~Comp(c, b, a)
    /\ \A a, b, d \in Elem : Comp(c, a, b) /\ Comp(c, b, d) => Comp(c, a, d)
    /\ \A a, b, d \in Elem : Equiv(c, a, b) /\ Equiv(c, b, d) => Equiv(c, a, d)

\* ------------------------------------------------------------------- state
VARIABLES
    kind,         \* "vector" or "pointer": which sort overload the caller uses
    ptrNull,      \* the T* argument is null
    size,         \* the size argument / arr.size()
    comp,         \* the comparator
    input,        \* the caller's sequence before any call
    arr,          \* the caller's sequence
    phase,        \* caller position
    stack,        \* activation records of sortImpl, innermost last
    mpc,          \* position inside merge, "none" when merge is not active
    n1, n2,       \* merge locals
    left, right,  \* the two temporary buffers
    i, j, k,      \* merge loop indices
    comparisons,  \* number of comp() evaluations made by sort
    merges,       \* number of merge() calls made by sort
    verdict       \* value returned by isSorted, "none" before it is called

vars == <<kind, ptrNull, size, comp, input, arr, phase, stack, mpc, n1, n2,
          left, right, i, j, k, comparisons, merges, verdict>>

callerVars == <<kind, ptrNull, size, comp, input>>
mergeVars  == <<mpc, n1, n2, left, right, i, j, k>>

SeqsUpTo(n) == UNION {[1 .. m -> Elem] : m \in 0 .. n}

\* ----------------------------------------------------------- memory access
InRange(s, x) == x >= 0 /\ x < Len(s)

\* Values a read of s[x] can yield: the stored value, or anything when the
\* index is outside the object (undefined behaviour).
ReadSet(s, x) == IF InRange(s, x) THEN {s[x + 1]} ELSE Elem

\* s after `s[x] = v`.
Put(s, x, v) == IF InRange(s, x) THEN [s EXCEPT ![x + 1] = v] ELSE s

\* ------------------------------------------------------------ the call stack
Depth == Len(stack)
Top == stack[Depth]
low == Top.low
high == Top.high
mid == Top.mid

Frame(lo, hi) ==
    [low |-> lo, high |-> hi, mid |-> Unset, pc |-> "test", entry |-> arr]

SetTop(f) == [stack EXCEPT ![Depth] = f]

\* ---------------------------------------------------------------- isSorted
RECURSIVE IsSortedLoop(_, _, _, _)
IsSortedLoop(a, sz, c, x) ==
    IF ~(x < sz - 1) THEN TRUE
    ELSE IF Comp(c, a[x + 2], a[x + 1]) /\ ~Comp(c, a[x + 1], a[x + 2])
         THEN FALSE
         ELSE IsSortedLoop(a, sz, c, x + 1)

IsSorted(null, a, sz, c) ==
    IF null \/ sz <= 1 THEN TRUE ELSE IsSortedLoop(a, sz, c, 0)

\* ---------------------------------------------------------------- Init
Init ==
    /\ kind \in {"vector", "pointer"}
    /\ ptrNull \in BOOLEAN
    /\ kind = "vector" => ~ptrNull
    /\ comp \in Relations
    /\ input \in SeqsUpTo(MaxLen)
    /\ size \in 0 .. MaxLen
    /\ IF ptrNull THEN input = << >> ELSE size = Len(input)
    /\ arr = input
    /\ phase = "idle"
    /\ stack = << >>
    /\ mpc = "none"
    /\ n1 = 0 /\ n2 = 0
    /\ left = << >> /\ right = << >>
    /\ i = 0 /\ j = 0 /\ k = 0
    /\ comparisons = 0
    /\ merges = 0
    /\ verdict = "none"

\* ------------------------------------------------------- sort entry points
SortVector ==
    /\ phase = "idle" /\ kind = "vector"
    /\ IF size = 0
       THEN phase' = "returned" /\ stack' = stack
       ELSE phase' = "sorting" /\ stack' = <<Frame(0, size - 1)>>
    /\ UNCHANGED <<callerVars, arr, mergeVars, comparisons, merges, verdict>>

\* Variants of the null check: one that lets (null, 0) through, one that also
\* rejects size 0.
NullGuard_NonEmptyOnly == ptrNull /\ size > 0
NullGuard_OrEmpty == ptrNull \/ size = 0
NullGuard == ptrNull

SortPointer ==
    /\ phase = "idle" /\ kind = "pointer"
    /\ IF NullGuard
       THEN phase' = "threw" /\ stack' = stack
       ELSE IF size = 0 \/ size = 1
            THEN phase' = "returned" /\ stack' = stack
            ELSE phase' = "sorting" /\ stack' = <<Frame(0, size - 1)>>
    /\ UNCHANGED <<callerVars, arr, mergeVars, comparisons, merges, verdict>>

\* ----------------------------------------------------------------- sortImpl
\* Variant of the midpoint that rounds up.
Mid_RoundUp(lo, hi) == lo + (hi - lo + 1) \div 2
Mid(lo, hi) == lo + (hi - lo) \div 2

ImplTest ==
    /\ phase = "sorting" /\ Depth > 0 /\ Top.pc = "test"
    /\ IF low < high
       THEN stack' = SetTop([Top EXCEPT !.mid = Mid(low, high), !.pc = "callL"])
       ELSE stack' = SetTop([Top EXCEPT !.pc = "ret"])
    /\ UNCHANGED <<callerVars, arr, phase, mergeVars, comparisons, merges,
                   verdict>>

ImplCallLeft ==
    /\ phase = "sorting" /\ Depth > 0 /\ Top.pc = "callL"
    /\ stack' = Append(SetTop([Top EXCEPT !.pc = "callR"]), Frame(low, mid))
    /\ UNCHANGED <<callerVars, arr, phase, mergeVars, comparisons, merges,
                   verdict>>

ImplCallRight ==
    /\ phase = "sorting" /\ Depth > 0 /\ Top.pc = "callR"
    /\ stack' = Append(SetTop([Top EXCEPT !.pc = "merge"]), Frame(mid + 1, high))
    /\ UNCHANGED <<callerVars, arr, phase, mergeVars, comparisons, merges,
                   verdict>>

ImplCallMerge ==
    /\ phase = "sorting" /\ Depth > 0 /\ Top.pc = "merge"
    /\ stack' = SetTop([Top EXCEPT !.pc = "merging"])
    /\ mpc' = "alloc"
    /\ merges' = merges + 1
    /\ UNCHANGED <<callerVars, arr, phase, n1, n2, left, right, i, j, k,
                   comparisons, verdict>>

ImplReturn ==
    /\ phase = "sorting" /\ Depth > 0 /\ Top.pc = "ret"
    /\ stack' = SubSeq(stack, 1, Depth - 1)
    /\ phase' = IF Depth = 1 THEN "returned" ELSE "sorting"
    /\ UNCHANGED <<callerVars, arr, mergeVars, comparisons, merges, verdict>>

\* -------------------------------------------------------------------- merge
MergeAlloc ==
    /\ mpc = "alloc"
    /\ n1' = mid - low + 1
    /\ n2' = high - mid
    /\ left' = [x \in 1 .. n1' |-> Unset]
    /\ right' = [x \in 1 .. n2' |-> Unset]
    /\ i' = 0
    /\ mpc' = "copyL"
    /\ UNCHANGED <<callerVars, arr, phase, stack, j, k, comparisons, merges,
                   verdict>>

\* Variant of the right-half source index that starts at mid.
RightSrc_FromMid(x) == mid + x
LeftSrc(x) == low + x
RightSrc(x) == mid + 1 + x

CopyLeftCond == i < n1
CopyRightCond == j < n2

CopyLeft ==
    /\ mpc = "copyL"
    /\ IF CopyLeftCond
       THEN /\ \E v \in ReadSet(arr, LeftSrc(i)) : left' = Put(left, i, v)
            /\ i' = i + 1
            /\ UNCHANGED <<mpc, j>>
       ELSE /\ mpc' = "copyR"
            /\ j' = 0
            /\ UNCHANGED <<left, i>>
    /\ UNCHANGED <<callerVars, arr, phase, stack, n1, n2, right, k,
                   comparisons, merges, verdict>>

\* Variant of the write cursor that starts one position early.
KInit_OneEarly == low - 1
KInit == low

CopyRight ==
    /\ mpc = "copyR"
    /\ IF CopyRightCond
       THEN /\ \E v \in ReadSet(arr, RightSrc(j)) : right' = Put(right, j, v)
            /\ j' = j + 1
            /\ UNCHANGED <<mpc, i, k>>
       ELSE /\ mpc' = "loop"
            /\ i' = 0 /\ j' = 0 /\ k' = KInit
            /\ UNCHANGED right
    /\ UNCHANGED <<callerVars, arr, phase, stack, n1, n2, left,
                   comparisons, merges, verdict>>

\* Variant of the merge loop condition with an inclusive left bound.
MergeCond_Inclusive == i <= n1 /\ j < n2
MergeCond == i < n1 /\ j < n2
RestLeftCond == i < n1
RestRightCond == j < n2

\* Variant of the merge comparison with its arguments swapped.
TakeLeft_Swapped(l, r) == Comp(comp, r, l)
TakeLeft(l, r) == Comp(comp, l, r)

MergeLoop ==
    /\ mpc = "loop"
    /\ IF MergeCond
       THEN /\ \E l \in ReadSet(left, i), r \in ReadSet(right, j) :
                 IF TakeLeft(l, r)
                 THEN arr' = Put(arr, k, l) /\ i' = i + 1 /\ j' = j
                 ELSE arr' = Put(arr, k, r) /\ j' = j + 1 /\ i' = i
            /\ k' = k + 1
            /\ comparisons' = comparisons + 1
            /\ mpc' = mpc
       ELSE /\ mpc' = "restL"
            /\ UNCHANGED <<arr, i, j, k, comparisons>>
    /\ UNCHANGED <<callerVars, phase, stack, n1, n2, left, right, merges,
                   verdict>>

RestLeft ==
    /\ mpc = "restL"
    /\ IF RestLeftCond
       THEN /\ \E l \in ReadSet(left, i) : arr' = Put(arr, k, l)
            /\ i' = i + 1
            /\ k' = k + 1
            /\ mpc' = mpc
       ELSE /\ mpc' = "restR"
            /\ UNCHANGED <<arr, i, k>>
    /\ UNCHANGED <<callerVars, phase, stack, n1, n2, left, right, j,
                   comparisons, merges, verdict>>

\* The last loop of merge; leaving it returns from merge, which releases the
\* buffers and resumes the calling sortImpl at its end.
RestRight ==
    /\ mpc = "restR"
    /\ IF RestRightCond
       THEN /\ \E r \in ReadSet(right, j) : arr' = Put(arr, k, r)
            /\ j' = j + 1
            /\ k' = k + 1
            /\ UNCHANGED <<mpc, stack, n1, n2, left, right, i>>
       ELSE /\ mpc' = "none"
            /\ stack' = SetTop([Top EXCEPT !.pc = "ret"])
            /\ n1' = 0 /\ n2' = 0
            /\ left' = << >> /\ right' = << >>
            /\ i' = 0 /\ j' = 0 /\ k' = 0
            /\ arr' = arr
    /\ UNCHANGED <<callerVars, phase, comparisons, merges, verdict>>

\* ------------------------------------------------------------ isSorted call
IsSortedCall ==
    /\ phase \in {"idle", "returned"}
    /\ verdict' = IF IsSorted(ptrNull, arr, size, comp) THEN "true" ELSE "false"
    /\ phase' = IF phase = "idle" THEN "checked" ELSE "verified"
    /\ UNCHANGED <<callerVars, arr, stack, mergeVars, comparisons, merges>>

\* ---------------------------------------------------------------- Next
SortStep ==
    \/ ImplTest
    \/ ImplCallLeft
    \/ ImplCallRight
    \/ ImplCallMerge
    \/ ImplReturn
    \/ MergeAlloc
    \/ CopyLeft
    \/ CopyRight
    \/ MergeLoop
    \/ RestLeft
    \/ RestRight

Next ==
    \/ SortVector
    \/ SortPointer
    \/ SortStep
    \/ IsSortedCall

Spec == Init /\ [][Next]_vars

\* A call that has started keeps executing: the code is single-threaded and
\* synchronous, with no suspension points.
FairSpec == Spec /\ WF_vars(SortVector \/ SortPointer \/ SortStep)

TypeOK ==
    /\ kind \in {"vector", "pointer"}
    /\ ptrNull \in BOOLEAN
    /\ size \in 0 .. MaxLen
    /\ comp \in Relations
    /\ phase \in {"idle", "sorting", "returned", "threw", "checked", "verified"}
    /\ mpc \in {"none", "alloc", "copyL", "copyR", "loop", "restL", "restR"}
    /\ verdict \in {"none", "true", "false"}

\* ======================================================== shared predicates
NoInversion(a, c) == \A p \in 1 .. (Len(a) - 1) : ~Comp(c, a[p + 1], a[p])

Count(s, e) == Cardinality({p \in DOMAIN s : s[p] = e})
Range(s) == {s[p] : p \in DOMAIN s}
SameMultiset(s, t) == \A e \in Range(s) \cup Range(t) : Count(s, e) = Count(t, e)

RECURSIVE Class(_, _, _)
\* The subsequence of s made of the elements equivalent to e under c.
Class(s, c, e) ==
    IF s = << >> THEN << >>
    ELSE IF Equiv(c, Head(s), e)
         THEN <<Head(s)>> \o Class(Tail(s), c, e)
         ELSE Class(Tail(s), c, e)

SortReturned == phase \in {"returned", "verified"}
HasDuplicate(s) == \E p, q \in DOMAIN s : p < q /\ s[p] = s[q]

\* ====================================================================== C1
\* C1: after sort returns under a strict weak ordering, isSorted is true and
\* no adjacent pair (p, p+1) of the result has comp(a[p+1], a[p]).
C1_OrderInvariant ==
    (SortReturned /\ IsStrictWeakOrdering(comp)) =>
        /\ NoInversion(arr, comp)
        /\ IsSorted(ptrNull, arr, size, comp)
        /\ phase = "verified" => verdict = "true"

C1_Witness ==
    /\ phase = "verified" /\ verdict = "true"
    /\ comp = "descending"
    /\ Len(arr) >= 3 /\ HasDuplicate(arr) /\ arr # input

\* ====================================================================== C2
\* C2: under every comparator the length of the sequence never changes and,
\* once sort has returned, the sequence holds the same multiset as the input.
C2_Permutation ==
    /\ Len(arr) = Len(input)
    /\ SortReturned => SameMultiset(arr, input)

C2_Witness ==
    /\ phase = "returned"
    /\ ~IsStrictWeakOrdering(comp)
    /\ Len(arr) >= 3 /\ HasDuplicate(arr) /\ arr # input

\* ====================================================================== C3
\* C3: sort is stable: under a strict weak ordering, the elements of each
\* equivalence class appear in the result in their input order.
C3_Stability ==
    (SortReturned /\ IsStrictWeakOrdering(comp)) =>
        \A e \in Elem : Class(arr, comp, e) = Class(input, comp, e)

\* ====================================================================== C4
\* C4 as stated: the pointer overload throws exactly when the pointer is null
\* and the length is positive; (null, 0) returns normally.
C4_NullGuardAsStated ==
    (kind = "pointer" /\ phase \notin {"idle", "checked"}) =>
        (phase = "threw" <=> (ptrNull /\ size > 0))

\* C4 amended: the pointer overload throws exactly when the pointer is null,
\* whatever the length (0 included); a non-null pointer never throws.
C4_NullGuard ==
    (kind = "pointer" /\ phase \notin {"idle", "checked"}) =>
        (phase = "threw" <=> ptrNull)

C4_Witness == kind = "pointer" /\ ptrNull /\ size = 0 /\ phase = "threw"

\* ====================================================================== C5
\* C5: sorting a sequence that is already sorted under a strict weak ordering
\* leaves it identical position by position.
C5_Idempotence ==
    (SortReturned /\ IsStrictWeakOrdering(comp) /\ NoInversion(input, comp)) =>
        arr = input

\* ====================================================================== C6
\* C6: isSorted returns true for a null pointer or length <= 1, and otherwise
\* returns true exactly when no adjacent pair has comp(a[p+1], a[p]), for
\* every comparator.
C6_IsSortedNoInversion ==
    verdict # "none" =>
        (verdict = "true" <=> (ptrNull \/ size <= 1 \/ NoInversion(arr, comp)))

\* ====================================================================== C7
\* The element accesses made by the next step of merge.
Accesses ==
    CASE mpc = "copyL" /\ CopyLeftCond ->
            {[obj |-> "left", idx |-> i], [obj |-> "arr", idx |-> LeftSrc(i)]}
      [] mpc = "copyR" /\ CopyRightCond ->
            {[obj |-> "right", idx |-> j], [obj |-> "arr", idx |-> RightSrc(j)]}
      [] mpc = "loop" /\ MergeCond ->
            {[obj |-> "left", idx |-> i], [obj |-> "right", idx |-> j],
             [obj |-> "arr", idx |-> k]}
      [] mpc = "restL" /\ RestLeftCond ->
            {[obj |-> "left", idx |-> i], [obj |-> "arr", idx |-> k]}
      [] mpc = "restR" /\ RestRightCond ->
            {[obj |-> "right", idx |-> j], [obj |-> "arr", idx |-> k]}
      [] OTHER -> {}

\* C7: under every comparator, each access of merge to the sequence uses an
\* index in [low, high] and in [0, size-1], and each access to a buffer uses
\* an index in [0, n1-1] (left) or [0, n2-1] (right), with n1 = mid-low+1 and
\* n2 = high-mid the allocated lengths.
C7_MemorySafety ==
    /\ mpc \notin {"none", "alloc"} =>
          /\ n1 = mid - low + 1 /\ n2 = high - mid
          /\ Len(left) = n1 /\ Len(right) = n2
    /\ \A a \in Accesses :
          CASE a.obj = "arr" ->
                  a.idx \in low .. high /\ a.idx \in 0 .. (size - 1)
                  /\ InRange(arr, a.idx)
            [] a.obj = "left" ->
                  a.idx \in 0 .. (n1 - 1) /\ InRange(left, a.idx)
            [] a.obj = "right" ->
                  a.idx \in 0 .. (n2 - 1) /\ InRange(right, a.idx)

C7_Witness ==
    /\ mpc = "loop" /\ MergeCond
    /\ comp = "cyclic"
    /\ low > 0 /\ k = low

\* ====================================================================== C8
\* Every active call with low < high has low <= mid < high and was entered on
\* one of the two strictly smaller spans of its caller; a call with
\* low >= high only tests and returns.
RecursionShrinks ==
    \A d \in 1 .. Depth :
        LET f == stack[d] IN
        /\ f.pc \notin {"test", "ret"} =>
              f.low < f.high /\ f.low <= f.mid /\ f.mid < f.high
        /\ f.low >= f.high => f.pc \in {"test", "ret"}
        /\ d > 1 =>
              LET p == stack[d - 1] IN
              /\ p.low < p.high
              /\ \/ f.low = p.low /\ f.high = p.mid
                 \/ f.low = p.mid + 1 /\ f.high = p.high
              /\ f.high - f.low < p.high - p.low

\* Every iteration of a merge loop advances k by one and exactly one of i, j.
LoopAdvances ==
    /\ (mpc = "loop" /\ MergeCond) =>
          k' = k + 1 /\ i' >= i /\ j' >= j /\ i' + j' = i + j + 1
    /\ (mpc = "restL" /\ RestLeftCond) => k' = k + 1 /\ i' = i + 1 /\ j' = j
    /\ (mpc = "restR" /\ RestRightCond) => k' = k + 1 /\ j' = j + 1 /\ i' = i

\* C8: under every comparator sort eventually returns; recursion is on
\* strictly smaller spans and every merge loop iteration advances.
C8_Termination ==
    /\ []RecursionShrinks
    /\ [][LoopAdvances]_vars
    /\ (phase = "sorting") ~> (phase = "returned")

C8_Witness ==
    /\ phase = "returned"
    /\ ~IsStrictWeakOrdering(comp)
    /\ merges >= 3 /\ comparisons >= 4

\* ====================================================================== C9
\* C9: on a sequence of length 0 or 1 (vector or non-null pointer) sort does
\* not throw, makes no merge and no comparison and leaves the sequence as it
\* was; the vector overload never throws; isSorted is true for length <= 1.
C9_SmallNoOp ==
    /\ (size <= 1 /\ ~ptrNull) =>
          /\ phase # "threw"
          /\ arr = input
          /\ merges = 0 /\ comparisons = 0 /\ mpc = "none"
          /\ Depth <= 1
    /\ kind = "vector" => phase # "threw"
    /\ (size <= 1 /\ verdict # "none") => verdict = "true"

C9_Witness ==
    /\ phase = "verified" /\ kind = "pointer" /\ ~ptrNull
    /\ size = 0 /\ verdict = "true"

\* ===================================================================== C10
\* C10: while a call of sortImpl on [low, high] is active, every position
\* outside [low, high] holds what it held when the call was entered, and when
\* the call is about to return the span [low, high] holds a permutation of
\* what it held on entry.
C10_Frame ==
    \A d \in 1 .. Depth :
        LET f == stack[d] IN
        /\ Len(arr) = Len(f.entry)
        /\ \A p \in DOMAIN arr :
              (p - 1 < f.low \/ p - 1 > f.high) => arr[p] = f.entry[p]
        /\ f.pc = "ret" =>
              SameMultiset(SubSeq(arr, f.low + 1, f.high + 1),
                           SubSeq(f.entry, f.low + 1, f.high + 1))

C10_Witness ==
    /\ Depth > 1 /\ Top.pc = "ret"
    /\ low > 0 /\ low < high
    /\ arr # Top.entry
====
